---------------------------- MODULE Spec2Model ----------------------------
(***************************************************************************)
(* A model of ai_urllib4's connection pools (connectionpool.py,            *)
(* async_connectionpool.py), pool registry (poolmanager.py), response      *)
(* classifier (ai.py) and adaptive request loop (smart_client.py).         *)
(***************************************************************************)
EXTENDS Integers, Sequences, FiniteSets, TLC

(***************************************************************************)
(* Bounds of the model.                                                    *)
(***************************************************************************)
MaxSize == 2      \* largest maxsize a pool is constructed with
MaxConns == 3     \* connection objects constructed in a run
NThreads == 2     \* threads calling HTTPConnectionPool.urlopen
NTasks == 3       \* coroutines calling AsyncHTTPConnectionPool.urlopen
MaxPools == 2     \* largest num_pools a PoolManager is constructed with
NKeys == 3        \* distinct (scheme, netloc) destinations looked up
MaxMade == 3      \* pools one PoolManager constructs in a run
MaxMgrConns == 2  \* connections the pools of one PoolManager construct in a run
MaxFrags == 2     \* fragments a response body is concatenated from
MaxRequests == 2  \* SmartClient.request calls in a run
MaxObs == 2       \* learn_from_response calls made on one AISmartConfig
MaxLead == 2      \* failures that open a long run of observations
MaxStream == 52   \* observations in a long run of observations
MaxLearn == 3     \* learn_from_response calls one SmartClient makes in a run

Threads == 1..NThreads
Tasks == 1..NTasks

Range(s) == {s[i] : i \in 1..Len(s)}

VARIABLES
    kind,       \* which pool class the run constructs: "sync" or "async"
    \* ---- HTTPConnectionPool and the threads calling it
    hp,         \* the pool object: maxsize, block, closed, num_connections, pool
    tpc,        \* per thread: "idle", "request" (inside urlopen's try), "done"
    trel,       \* per thread: the release_conn argument of its urlopen call
    tconn,      \* per thread: the connection urlopen holds (0: none)
    tout,       \* per thread: how its last call ended
    treg,       \* per thread: the value of self.num_connections it read for += / -=
    \* ---- AsyncHTTPConnectionPool, the event loop and the coroutines
    ap,         \* the pool object: maxsize, block, closed, num_connections
    queue,      \* self.pool, the asyncio.Queue's items
    getters,    \* the asyncio.Queue's pending getter futures, by task
    ready,      \* the event loop's run queue (FIFO), by task
    cpc,        \* per task: where the coroutine is
    chold,      \* per task: the handle _get_conn returned to it (0: none)
    cout,       \* per task: how its last call ended
    waitq,      \* history: tasks suspended in _get_conn, in the order they began waiting
    \* ---- PoolManager
    mgr,        \* the manager: num_pools and the connection_pool_kw (maxsize, block)
    pools,      \* self.pools, the dict's entries [key, id] in insertion order
    objs,       \* every pool the manager constructed, by id (its construction number)
    ret,        \* what the last connection_from_url call was asked and returned
    \* ---- AISmartConfig.classify_response
    status,     \* response.status
    data,       \* response.data, a sequence of characters
    classification, \* what classify_response returned ("unclassified": not called yet)
    \* ---- SmartClient
    client,     \* the client: ai_optimize, learn_from_success, self.headers
    rpc,        \* the request call: "idle", "loop", "returned", "raised"
    rq,         \* the call's arguments (the destination of url, what the caller put
                \* in kw) and its local ai_headers
    attempt,    \* the local variable attempt
    headers,    \* kw["headers"]
    timeout,    \* kw["timeout"]
    clock,      \* seconds since start_time
    sent,       \* the headers and timeout the last dispatch handed to urlopen
    err,        \* the exception that left the call ("none": none)
    dispatches, \* super().request calls this request has made
    nreq,       \* request calls made so far
    allBlock,   \* history: every response of this request was classified block
    \* ---- AISmartConfig
    insights,   \* self._insights, by destination
    backend,    \* self.backend: "none", "gemini" (GeminiBackend) or "custom"
    nobs,       \* learn_from_response calls made so far
    call,       \* the last call made on the object: op, key, arg, val (what it returned)
    \* ---- threads inside PoolManager.connection_from_url
    mpc,        \* per thread: "idle", "absent", "full", "room", "found", "done"
    mkey,       \* per thread: the destination of its url argument
    mret,       \* per thread: what its last call returned (id) or raised (exc)
    \* ---- threads inside AISmartConfig.learn_from_response
    lpc,        \* per thread: "idle", "total", "classified", "count"
    lobs,       \* per thread: its arguments (destination, response, elapsed)
    lreg        \* per thread: the attribute value it read for +=

syncVars == <<hp, tpc, trel, tconn, tout, treg>>
asyncVars == <<ap, queue, getters, ready, cpc, chold, cout, waitq>>
poolVars == <<kind, syncVars, asyncVars>>
mgrVars == <<mgr, pools, objs, ret>>
clsVars == <<status, data, classification>>
aiVars == <<insights, backend, nobs, call>>
clientVars == <<client, rpc, rq, attempt, headers, timeout, clock, sent, err,
                dispatches, nreq, allBlock>>
callerVars == <<mpc, mkey, mret, lpc, lobs, lreg>>
otherVars == <<mgrVars, clsVars, aiVars, clientVars, callerVars>>
vars == <<poolVars, otherVars>>

(***************************************************************************)
(* HTTPConnectionPool (connectionpool.py).  Connections are numbered in    *)
(* the order ConnectionCls constructs them; made counts them and shut      *)
(* holds those whose close() was called.                                   *)
(***************************************************************************)
NewPool(maxsize, block) ==
    [maxsize |-> maxsize, block |-> block, closed |-> FALSE,
     num_connections |-> 0, pool |-> <<>>, made |-> 0, shut |-> {}]

\* HTTPConnectionPool.close
PoolClose(p) ==
    [p EXCEPT !.closed = TRUE, !.shut = @ \cup Range(p.pool), !.pool = <<>>]

\* Mutant of PoolGetConn: the closed check is missing
PoolGetConnIgnoresClosed(p) ==
    IF Len(p.pool) = 0 /\ p.num_connections >= p.maxsize /\ ~p.block
    THEN [exc |-> "EmptyPoolError", conn |-> 0, p |-> p]
    ELSE [exc |-> "none", conn |-> p.made + 1,
          p |-> [p EXCEPT !.num_connections = @ + 1, !.made = @ + 1]]

\* HTTPConnectionPool._get_conn: the exception raised ("none": returns), the
\* connection returned and the pool afterwards.
PoolGetConn(p) ==
    IF p.closed
    THEN [exc |-> "ClosedPoolError", conn |-> 0, p |-> p]
    ELSE IF Len(p.pool) = 0 /\ p.num_connections >= p.maxsize /\ ~p.block
    THEN [exc |-> "EmptyPoolError", conn |-> 0, p |-> p]
    ELSE [exc |-> "none", conn |-> p.made + 1,
          p |-> [p EXCEPT !.num_connections = @ + 1, !.made = @ + 1]]

\* Mutant of PoolPutConn: the closed check is missing
PoolPutConnIgnoresClosed(p, conn) ==
    [p EXCEPT !.pool = Append(@, conn)]

\* HTTPConnectionPool._put_conn
PoolPutConn(p, conn) ==
    IF p.closed
    THEN [p EXCEPT !.shut = @ \cup {conn}]
    ELSE [p EXCEPT !.pool = Append(@, conn)]

\* Mutant of PoolFinally: the connection is closed but still counted
PoolFinallyKeepsCount(p, conn, release_conn) ==
    IF release_conn
    THEN PoolPutConn(p, conn)
    ELSE [p EXCEPT !.shut = @ \cup {conn}]

\* The finally block of HTTPConnectionPool.urlopen
PoolFinally(p, conn, release_conn) ==
    IF release_conn
    THEN PoolPutConn(p, conn)
    ELSE [p EXCEPT !.shut = @ \cup {conn}, !.num_connections = @ - 1]

(***************************************************************************)
(* AsyncHTTPConnectionPool (async_connectionpool.py).  self.pool is an     *)
(* asyncio.Queue(maxsize): queue holds its items and getters the tasks     *)
(* whose get() is pending.  The event loop runs one task at a time, from   *)
(* the head of ready, up to the task's next await that suspends.           *)
(***************************************************************************)
NewAsyncPool(maxsize, block) ==
    [maxsize |-> maxsize, block |-> block, closed |-> FALSE, num_connections |-> 0]

RemoveTask(s, t) == SelectSeq(s, LAMBDA x : x # t)

\* asyncio.Queue._wakeup_next(self._getters), as put_nowait calls it: the first
\* pending getter's future is resolved and its task scheduled.
WakeupNext(gs, rdy, pcs) ==
    IF gs = <<>>
    THEN [getters |-> gs, ready |-> rdy, cpc |-> pcs]
    ELSE [getters |-> Tail(gs), ready |-> Append(rdy, Head(gs)),
          cpc |-> [pcs EXCEPT ![Head(gs)] = "woken"]]

\* Mutant of AsyncGetConn: get_nowait returns the head item without removing it
AsyncGetConnKeepsItem(p, q) ==
    IF p.closed
    THEN [exc |-> "ClosedPoolError", conn |-> 0, p |-> p, queue |-> q, wait |-> FALSE]
    ELSE IF q # <<>>
    THEN [exc |-> "none", conn |-> Head(q), p |-> p, queue |-> q, wait |-> FALSE]
    ELSE IF p.num_connections < p.maxsize
    THEN [exc |-> "none", conn |-> p.num_connections + 1,
          p |-> [p EXCEPT !.num_connections = @ + 1], queue |-> q, wait |-> FALSE]
    ELSE IF ~p.block
    THEN [exc |-> "EmptyPoolError", conn |-> 0, p |-> p, queue |-> q, wait |-> FALSE]
    ELSE [exc |-> "none", conn |-> 0, p |-> p, queue |-> q, wait |-> TRUE]

\* Mutant of AsyncGetConn: the block flag is not consulted, an exhausted pool waits
AsyncGetConnAlwaysWaits(p, q) ==
    IF p.closed
    THEN [exc |-> "ClosedPoolError", conn |-> 0, p |-> p, queue |-> q, wait |-> FALSE]
    ELSE IF q # <<>>
    THEN [exc |-> "none", conn |-> Head(q), p |-> p, queue |-> Tail(q), wait |-> FALSE]
    ELSE IF p.num_connections < p.maxsize
    THEN [exc |-> "none", conn |-> p.num_connections + 1,
          p |-> [p EXCEPT !.num_connections = @ + 1], queue |-> q, wait |-> FALSE]
    ELSE [exc |-> "none", conn |-> 0, p |-> p, queue |-> q, wait |-> TRUE]

\* AsyncHTTPConnectionPool._get_conn up to its first suspension
AsyncGetConn(p, q) ==
    IF p.closed
    THEN [exc |-> "ClosedPoolError", conn |-> 0, p |-> p, queue |-> q, wait |-> FALSE]
    ELSE IF q # <<>>
    THEN [exc |-> "none", conn |-> Head(q), p |-> p, queue |-> Tail(q), wait |-> FALSE]
    ELSE IF p.num_connections < p.maxsize
    THEN [exc |-> "none", conn |-> p.num_connections + 1,
          p |-> [p EXCEPT !.num_connections = @ + 1], queue |-> q, wait |-> FALSE]
    ELSE IF ~p.block
    THEN [exc |-> "EmptyPoolError", conn |-> 0, p |-> p, queue |-> q, wait |-> FALSE]
    ELSE [exc |-> "none", conn |-> 0, p |-> p, queue |-> q, wait |-> TRUE]

\* A caller schedules a coroutine that calls urlopen (create_task, gather, a timer);
\* a task whose earlier call ended may be used for the next call
Spawn(t) ==
    /\ kind = "async"
    /\ cpc[t] \in {"idle", "done"}
    /\ cpc' = [cpc EXCEPT ![t] = "start"]
    /\ cout' = [cout EXCEPT ![t] = "none"]
    /\ ready' = Append(ready, t)
    /\ UNCHANGED <<otherVars, kind, syncVars, ap, queue, getters, chold, waitq>>

\* urlopen from its start: conn = await self._get_conn(), then up to
\* await asyncio.open_connection(...)
RunStart ==
    /\ kind = "async"
    /\ ready # <<>>
    /\ LET t == Head(ready)
           r == AsyncGetConn(ap, queue) IN
        /\ cpc[t] = "start"
        /\ ap' = r.p
        /\ queue' = r.queue
        /\ ready' = Tail(ready)
        /\ chold' = [chold EXCEPT ![t] = r.conn]
        /\ IF r.exc # "none"
           THEN /\ cpc' = [cpc EXCEPT ![t] = "done"]
                /\ cout' = [cout EXCEPT ![t] = r.exc]
                /\ UNCHANGED <<getters, waitq>>
           ELSE IF r.wait
           THEN /\ cpc' = [cpc EXCEPT ![t] = "waiting"]
                /\ getters' = Append(getters, t)
                /\ waitq' = Append(waitq, t)
                /\ UNCHANGED cout
           ELSE /\ cpc' = [cpc EXCEPT ![t] = "connect"]
                /\ UNCHANGED <<getters, waitq, cout>>
    /\ UNCHANGED <<otherVars, kind, syncVars>>

\* asyncio.Queue.get resumed after its getter future was resolved:
\* while self.empty(): wait again (a new getter, at the back); return get_nowait()
RunWoken ==
    /\ kind = "async"
    /\ ready # <<>>
    /\ LET t == Head(ready) IN
        /\ cpc[t] = "woken"
        /\ ready' = Tail(ready)
        /\ IF queue = <<>>
           THEN /\ cpc' = [cpc EXCEPT ![t] = "waiting"]
                /\ getters' = Append(getters, t)
                /\ UNCHANGED <<queue, chold, waitq>>
           ELSE /\ cpc' = [cpc EXCEPT ![t] = "connect"]
                /\ chold' = [chold EXCEPT ![t] = Head(queue)]
                /\ queue' = Tail(queue)
                /\ waitq' = RemoveTask(waitq, t)
                /\ UNCHANGED getters
    /\ UNCHANGED <<otherVars, kind, syncVars, ap, cout>>

\* The transport answers the await a task is suspended in: the task is scheduled
\* (whether the await returned or raised is seen when the task runs)
IoComplete(t) ==
    /\ kind = "async"
    /\ cpc[t] \in {"connect", "transfer", "closing"}
    /\ t \notin Range(ready)
    /\ ready' = Append(ready, t)
    /\ UNCHANGED <<otherVars, kind, syncVars, ap, queue, getters, cpc, chold, cout, waitq>>

\* AsyncHTTPConnectionPool._put_conn as urlopen's finally awaits it, by task t with
\* outcome out: a closed pool drops the handle; Queue.put on a full queue suspends.
AsyncPutConn(t, out) ==
    IF ap.closed
    THEN /\ cpc' = [cpc EXCEPT ![t] = "done"]
         /\ chold' = [chold EXCEPT ![t] = 0]
         /\ cout' = [cout EXCEPT ![t] = out]
         /\ ready' = Tail(ready)
         /\ UNCHANGED <<queue, getters>>
    ELSE IF Len(queue) >= ap.maxsize
    THEN /\ cpc' = [cpc EXCEPT ![t] = "putting"]
         /\ cout' = [cout EXCEPT ![t] = out]
         /\ ready' = Tail(ready)
         /\ UNCHANGED <<queue, getters, chold>>
    ELSE LET w == WakeupNext(getters, Tail(ready), [cpc EXCEPT ![t] = "done"]) IN
         /\ queue' = Append(queue, chold[t])
         /\ chold' = [chold EXCEPT ![t] = 0]
         /\ cout' = [cout EXCEPT ![t] = out]
         /\ getters' = w.getters
         /\ ready' = w.ready
         /\ cpc' = w.cpc

\* urlopen resumed from asyncio.open_connection: on success it writes the request
\* and awaits drain/read; on failure except returns "Error: ..." and finally, with
\* no writer, awaits _put_conn.
RunConnect(ok) ==
    /\ kind = "async"
    /\ ready # <<>>
    /\ LET t == Head(ready) IN
        /\ cpc[t] = "connect"
        /\ IF ok
           THEN /\ cpc' = [cpc EXCEPT ![t] = "transfer"]
                /\ ready' = Tail(ready)
                /\ UNCHANGED <<queue, getters, chold, cout>>
           ELSE AsyncPutConn(t, "returned")
    /\ UNCHANGED <<otherVars, kind, syncVars, ap, waitq>>

\* urlopen resumed from drain/read: it returns the decoded response, or "Error: ..."
\* from except (a string either way: "returned"); finally closes the writer and
\* awaits writer.wait_closed().
RunTransfer(ok) ==
    /\ kind = "async"
    /\ ready # <<>>
    /\ LET t == Head(ready) IN
        /\ cpc[t] = "transfer"
        /\ cpc' = [cpc EXCEPT ![t] = "closing"]
        /\ cout' = [cout EXCEPT ![t] = "returned"]
        /\ ready' = Tail(ready)
    /\ UNCHANGED <<otherVars, kind, syncVars, ap, queue, getters, chold, waitq>>

\* urlopen resumed from writer.wait_closed(): then await self._put_conn(conn); if
\* wait_closed raised, the exception leaves finally before _put_conn is reached.
RunClosing(ok) ==
    /\ kind = "async"
    /\ ready # <<>>
    /\ LET t == Head(ready) IN
        /\ cpc[t] = "closing"
        /\ IF ok
           THEN AsyncPutConn(t, cout[t])
           ELSE /\ cpc' = [cpc EXCEPT ![t] = "done"]
                /\ chold' = [chold EXCEPT ![t] = 0]
                /\ cout' = [cout EXCEPT ![t] = "raised"]
                /\ ready' = Tail(ready)
                /\ UNCHANGED <<queue, getters>>
    /\ UNCHANGED <<otherVars, kind, syncVars, ap, waitq>>

\* AsyncHTTPConnectionPool.close
AsyncClose ==
    /\ kind = "async"
    /\ ap' = [ap EXCEPT !.closed = TRUE]
    /\ UNCHANGED <<otherVars, kind, syncVars, queue, getters, ready, cpc, chold, cout, waitq>>

InitAsync ==
    /\ ap \in {NewAsyncPool(n, b) : n \in 1..MaxSize, b \in BOOLEAN}
    /\ queue = <<>>
    /\ getters = <<>>
    /\ ready = <<>>
    /\ cpc = [t \in Tasks |-> "idle"]
    /\ chold = [t \in Tasks |-> 0]
    /\ cout = [t \in Tasks |-> "none"]
    /\ waitq = <<>>

(***************************************************************************)
(* Threads calling HTTPConnectionPool.urlopen and close.                   *)
(***************************************************************************)
\* urlopen up to the try block: conn = self._get_conn()
UrlopenBegin(t, release_conn) ==
    /\ kind = "sync"
    /\ tpc[t] = "idle"
    /\ hp.made < MaxConns \/ PoolGetConn(hp).exc # "none"
    /\ LET r == PoolGetConn(hp) IN
        /\ hp' = r.p
        /\ trel' = [trel EXCEPT ![t] = release_conn]
        /\ IF r.exc = "none"
           THEN /\ tpc' = [tpc EXCEPT ![t] = "request"]
                /\ tconn' = [tconn EXCEPT ![t] = r.conn]
                /\ tout' = [tout EXCEPT ![t] = "none"]
           ELSE /\ tpc' = [tpc EXCEPT ![t] = "done"]
                /\ tconn' = [tconn EXCEPT ![t] = 0]
                /\ tout' = [tout EXCEPT ![t] = r.exc]
    /\ UNCHANGED <<otherVars, kind, treg, asyncVars>>

\* The try block (conn.request / getresponse answer or raise) and the finally block
UrlopenEnd(t, ok) ==
    /\ kind = "sync"
    /\ tpc[t] = "request"
    /\ hp' = PoolFinally(hp, tconn[t], trel[t])
    /\ tpc' = [tpc EXCEPT ![t] = "done"]
    /\ tconn' = [tconn EXCEPT ![t] = 0]
    /\ tout' = [tout EXCEPT ![t] = IF ok THEN "response" ELSE "raised"]
    /\ UNCHANGED <<otherVars, kind, trel, treg, asyncVars>>

\* The caller takes the result; the thread may call again
UrlopenReturn(t) ==
    /\ kind = "sync"
    /\ tpc[t] = "done"
    /\ tpc' = [tpc EXCEPT ![t] = "idle"]
    /\ tout' = [tout EXCEPT ![t] = "none"]
    /\ UNCHANGED <<otherVars, kind, hp, trel, tconn, treg, asyncVars>>

\* HTTPConnectionPool.close, from any thread
Close ==
    /\ kind = "sync"
    /\ hp' = PoolClose(hp)
    /\ UNCHANGED <<otherVars, kind, tpc, trel, tconn, tout, treg, asyncVars>>

\* _get_conn up to the increment (lines 99-104): the closed check and the guard
\* on the idle list and the count, which raise or let the thread go on
GetConnCheck(t, release_conn) ==
    /\ kind = "sync"
    /\ tpc[t] = "idle"
    /\ hp.made + Cardinality({u \in Threads : tpc[u] \in {"checked", "loaded"}}) < MaxConns
    /\ trel' = [trel EXCEPT ![t] = release_conn]
    /\ tconn' = [tconn EXCEPT ![t] = 0]
    /\ IF hp.closed
       THEN /\ tpc' = [tpc EXCEPT ![t] = "done"]
            /\ tout' = [tout EXCEPT ![t] = "ClosedPoolError"]
       ELSE IF Len(hp.pool) = 0 /\ hp.num_connections >= hp.maxsize /\ ~hp.block
       THEN /\ tpc' = [tpc EXCEPT ![t] = "done"]
            /\ tout' = [tout EXCEPT ![t] = "EmptyPoolError"]
       ELSE /\ tpc' = [tpc EXCEPT ![t] = "checked"]
            /\ tout' = [tout EXCEPT ![t] = "none"]
    /\ UNCHANGED <<otherVars, kind, hp, treg, asyncVars>>

\* self.num_connections += 1 (line 115), first half: the attribute is read
GetConnLoad(t) ==
    /\ kind = "sync"
    /\ tpc[t] = "checked"
    /\ treg' = [treg EXCEPT ![t] = hp.num_connections]
    /\ tpc' = [tpc EXCEPT ![t] = "loaded"]
    /\ UNCHANGED <<otherVars, kind, hp, trel, tconn, tout, asyncVars>>

\* self.num_connections += 1, second half: the sum is stored; then the connection
\* is constructed and returned to urlopen (lines 117-128)
GetConnStore(t) ==
    /\ kind = "sync"
    /\ tpc[t] = "loaded"
    /\ hp' = [hp EXCEPT !.num_connections = treg[t] + 1, !.made = @ + 1]
    /\ tconn' = [tconn EXCEPT ![t] = hp.made + 1]
    /\ tpc' = [tpc EXCEPT ![t] = "request"]
    /\ UNCHANGED <<otherVars, kind, trel, tout, treg, asyncVars>>

\* urlopen's try block ends (response or exception) and its finally block begins:
\* with release_conn the connection is appended to the idle list; without, it is
\* closed and self.num_connections is read for -= 1 (lines 191-196)
FinallyLoad(t, ok) ==
    /\ kind = "sync"
    /\ tpc[t] = "request"
    /\ tout' = [tout EXCEPT ![t] = IF ok THEN "response" ELSE "raised"]
    /\ IF trel[t]
       THEN /\ hp' = PoolPutConn(hp, tconn[t])
            /\ tpc' = [tpc EXCEPT ![t] = "done"]
            /\ tconn' = [tconn EXCEPT ![t] = 0]
            /\ treg' = treg
       ELSE /\ hp' = [hp EXCEPT !.shut = @ \cup {tconn[t]}]
            /\ tpc' = [tpc EXCEPT ![t] = "closing"]
            /\ tconn' = tconn
            /\ treg' = [treg EXCEPT ![t] = hp.num_connections]
    /\ UNCHANGED <<otherVars, kind, trel, asyncVars>>

\* self.num_connections -= 1 (line 196), second half: the difference is stored
FinallyStore(t) ==
    /\ kind = "sync"
    /\ tpc[t] = "closing"
    /\ hp' = [hp EXCEPT !.num_connections = treg[t] - 1]
    /\ tpc' = [tpc EXCEPT ![t] = "done"]
    /\ tconn' = [tconn EXCEPT ![t] = 0]
    /\ UNCHANGED <<otherVars, kind, trel, tout, treg, asyncVars>>

InitSync ==
    /\ hp \in {NewPool(n, b) : n \in 1..MaxSize, b \in BOOLEAN}
    /\ tpc = [t \in Threads |-> "idle"]
    /\ trel = [t \in Threads |-> FALSE]
    /\ tconn = [t \in Threads |-> 0]
    /\ tout = [t \in Threads |-> "none"]
    /\ treg = [t \in Threads |-> 0]

InitSyncIdle ==
    /\ hp = NewPool(1, FALSE)
    /\ tpc = [t \in Threads |-> "idle"]
    /\ trel = [t \in Threads |-> FALSE]
    /\ tconn = [t \in Threads |-> 0]
    /\ tout = [t \in Threads |-> "none"]
    /\ treg = [t \in Threads |-> 0]

InitAsyncIdle ==
    /\ ap = NewAsyncPool(1, FALSE)
    /\ queue = <<>>
    /\ getters = <<>>
    /\ ready = <<>>
    /\ cpc = [t \in Tasks |-> "idle"]
    /\ chold = [t \in Tasks |-> 0]
    /\ cout = [t \in Tasks |-> "none"]
    /\ waitq = <<>>

(***************************************************************************)
(* PoolManager (poolmanager.py).  self.pools is a dict: its entries are    *)
(* kept in insertion order, next(iter(self.pools)) is the first of them,   *)
(* and a new key is added at the end.                                      *)
(***************************************************************************)
Keys == 1..NKeys

Cached(reg, key) == \E i \in 1..Len(reg) : reg[i].key = key
Lookup(reg, key) == reg[CHOOSE i \in 1..Len(reg) : reg[i].key = key].id

\* Mutant of Evict: the newest entry is removed instead of the oldest
EvictNewest(reg) == SubSeq(reg, 1, Len(reg) - 1)

\* self.pools.pop(next(iter(self.pools)))
Evict(reg) == Tail(reg)

\* PoolManager.connection_from_url: the registry, the pools and the pool returned
ConnectionFromUrl(m, reg, os, key) ==
    IF Cached(reg, key)
    THEN [pools |-> reg, objs |-> os, id |-> Lookup(reg, key)]
    ELSE LET kept == IF Len(reg) >= m.num_pools THEN Evict(reg) ELSE reg
             id == Len(os) + 1
         IN  [pools |-> Append(kept, [key |-> key, id |-> id]),
              objs |-> Append(os, NewPool(m.maxsize, m.block)),
              id |-> id]

\* Connections constructed so far by all the pools of os
RECURSIVE TotalMade(_)
TotalMade(os) == IF os = <<>> THEN 0 ELSE Head(os).made + TotalMade(Tail(os))

\* A caller looks a destination up
MgrConnectionFromUrl(key) ==
    /\ Cached(pools, key) \/ Len(objs) < MaxMade
    /\ LET r == ConnectionFromUrl(mgr, pools, objs, key) IN
        /\ pools' = r.pools
        /\ objs' = r.objs
        /\ ret' = [key |-> key, id |-> r.id]
    /\ UNCHANGED <<poolVars, callerVars, clsVars, aiVars, clientVars, mgr>>

\* PoolManager.request: pool = self.connection_from_url(url), then
\* pool.urlopen(method, url, **kw), which may carry release_conn; urlopen raises
\* what _get_conn or the transport raises, after its finally block.
MgrRequest(key, release_conn) ==
    /\ Cached(pools, key) \/ Len(objs) < MaxMade
    /\ LET r == ConnectionFromUrl(mgr, pools, objs, key)
           g == PoolGetConn(r.objs[r.id]) IN
        /\ g.exc = "none" => TotalMade(r.objs) < MaxMgrConns
        /\ pools' = r.pools
        /\ ret' = [key |-> key, id |-> r.id]
        /\ objs' = IF g.exc # "none"
                   THEN r.objs
                   ELSE [r.objs EXCEPT ![r.id] = PoolFinally(g.p, g.conn, release_conn)]
    /\ UNCHANGED <<poolVars, callerVars, clsVars, aiVars, clientVars, mgr>>

\* Header mappings: a value is a text, with the number it embeds if it has one;
\* a name the mapping does not define has the value Absent.
HeaderNames == {"User-Agent", "Accept", "Accept-Language", "Referer", "X-Token"}
Val(t) == [text |-> t, n |-> 0]
Absent == [text |-> "", n |-> -1]
NoHeaders == [h \in HeaderNames |-> Absent]

\* A keyword argument the caller did not pass
Unset == -1

NoCall == [op |-> "none", key |-> 0, arg |-> "none", val |-> "none"]

InitAiIdle ==
    /\ insights = <<>>
    /\ backend = "none"
    /\ nobs = 0
    /\ call = NoCall

\* No request call is in progress
NoRequest ==
    [key |-> 0, release_conn |-> FALSE, headers |-> NoHeaders, timeout |-> Unset,
     maxRetries |-> Unset, ai_headers |-> NoHeaders]
NothingSent == [headers |-> NoHeaders, timeout |-> Unset]

InitRequestIdle ==
    /\ rpc = "idle"
    /\ rq = NoRequest
    /\ attempt = 0
    /\ headers = NoHeaders
    /\ timeout = Unset
    /\ clock = 0
    /\ sent = NothingSent
    /\ err = "none"
    /\ dispatches = 0
    /\ nreq = 0
    /\ allBlock = TRUE

InitClientIdle ==
    /\ InitAiIdle
    /\ InitRequestIdle
    /\ client = [ai_optimize |-> FALSE, learn_from_success |-> FALSE, headers |-> NoHeaders]

InitClsIdle ==
    /\ status = 0
    /\ data = <<>>
    /\ classification = "none"

\* No thread is inside connection_from_url or learn_from_response
NoReturn == [id |-> 0, exc |-> "none"]
NoObservation == [key |-> 0, status |-> 0, data |-> <<>>, elapsed |-> [num |-> 0, den |-> 1]]

InitCallersIdle ==
    /\ mpc = [t \in Threads |-> "idle"]
    /\ mkey = [t \in Threads |-> 0]
    /\ mret = [t \in Threads |-> NoReturn]
    /\ lpc = [t \in Threads |-> "idle"]
    /\ lobs = [t \in Threads |-> NoObservation]
    /\ lreg = [t \in Threads |-> 0]

InitMgrIdle ==
    /\ mgr = [num_pools |-> 1, maxsize |-> 1, block |-> FALSE]
    /\ pools = <<>>
    /\ objs = <<>>
    /\ ret = [key |-> 0, id |-> 0]
    /\ InitCallersIdle

InitMgr ==
    /\ mgr \in [num_pools : 1..MaxPools, maxsize : {1}, block : BOOLEAN]
    /\ pools = <<>>
    /\ objs = <<>>
    /\ ret = [key |-> 0, id |-> 0]
    /\ InitCallersIdle

InitPoolsIdle == kind = "none" /\ InitSyncIdle /\ InitAsyncIdle

InitManager == InitPoolsIdle /\ InitMgr /\ InitClsIdle /\ InitClientIdle

NextManager ==
    \/ \E key \in Keys : MgrConnectionFromUrl(key)
    \/ \E key \in Keys, rc \in BOOLEAN : MgrRequest(key, rc)

SpecManager == InitManager /\ [][NextManager]_vars

(***************************************************************************)
(* Threads calling PoolManager.connection_from_url on one manager, a       *)
(* thread switch being possible between any two operations on self.pools   *)
(* (the class takes no lock; one dict operation is one step).              *)
(***************************************************************************)
\* self.pools[key] = pool: a key the dict holds keeps its place, a new one goes last
DictSet(reg, key, id) ==
    IF Cached(reg, key)
    THEN [i \in 1..Len(reg) |-> IF reg[i].key = key THEN [key |-> key, id |-> id] ELSE reg[i]]
    ELSE Append(reg, [key |-> key, id |-> id])

\* line 68: if key not in self.pools
RegCheck(t, key) ==
    /\ mpc[t] = "idle"
    /\ Len(objs) + Cardinality({u \in Threads : mpc[u] \in {"absent", "full", "room"}}) < MaxMade
    /\ mkey' = [mkey EXCEPT ![t] = key]
    /\ mret' = [mret EXCEPT ![t] = NoReturn]
    /\ mpc' = [mpc EXCEPT ![t] = IF Cached(pools, key) THEN "found" ELSE "absent"]
    /\ UNCHANGED <<poolVars, mgrVars, clsVars, aiVars, clientVars, lpc, lobs, lreg>>

\* line 71: if len(self.pools) >= self.num_pools
RegLen(t) ==
    /\ mpc[t] = "absent"
    /\ mpc' = [mpc EXCEPT ![t] = IF Len(pools) >= mgr.num_pools THEN "full" ELSE "room"]
    /\ UNCHANGED <<poolVars, mgrVars, clsVars, aiVars, clientVars, mkey, mret, lpc, lobs, lreg>>

\* line 73: self.pools.pop(next(iter(self.pools))); next raises StopIteration on a
\* dict other threads have emptied
RegEvict(t) ==
    /\ mpc[t] = "full"
    /\ IF pools = <<>>
       THEN /\ mpc' = [mpc EXCEPT ![t] = "done"]
            /\ mret' = [mret EXCEPT ![t] = [id |-> 0, exc |-> "StopIteration"]]
            /\ pools' = pools
       ELSE /\ mpc' = [mpc EXCEPT ![t] = "room"]
            /\ mret' = mret
            /\ pools' = Evict(pools)
    /\ UNCHANGED <<poolVars, clsVars, aiVars, clientVars, mgr, objs, ret, mkey, lpc, lobs, lreg>>

\* lines 75-82: self.pools[key] = pool_from_url(url, **pool_kw)
RegInsert(t) ==
    /\ mpc[t] = "room"
    /\ objs' = Append(objs, NewPool(mgr.maxsize, mgr.block))
    /\ pools' = DictSet(pools, mkey[t], Len(objs) + 1)
    /\ mpc' = [mpc EXCEPT ![t] = "found"]
    /\ UNCHANGED <<poolVars, clsVars, aiVars, clientVars, mgr, ret, mkey, mret, lpc, lobs, lreg>>

\* line 84: return self.pools[key]; KeyError if another thread evicted the key
RegReturn(t) ==
    /\ mpc[t] = "found"
    /\ mpc' = [mpc EXCEPT ![t] = "done"]
    /\ IF Cached(pools, mkey[t])
       THEN /\ mret' = [mret EXCEPT ![t] = [id |-> Lookup(pools, mkey[t]), exc |-> "none"]]
            /\ ret' = [key |-> mkey[t], id |-> Lookup(pools, mkey[t])]
       ELSE /\ mret' = [mret EXCEPT ![t] = [id |-> 0, exc |-> "KeyError"]]
            /\ ret' = ret
    /\ UNCHANGED <<poolVars, clsVars, aiVars, clientVars, mgr, pools, objs, mkey, lpc, lobs, lreg>>

\* The caller takes the pool or the exception; the thread may call again
RegDone(t) ==
    /\ mpc[t] = "done"
    /\ mpc' = [mpc EXCEPT ![t] = "idle"]
    /\ mkey' = [mkey EXCEPT ![t] = 0]
    /\ mret' = [mret EXCEPT ![t] = NoReturn]
    /\ UNCHANGED <<poolVars, mgrVars, clsVars, aiVars, clientVars, lpc, lobs, lreg>>

NextRegistry ==
    \/ \E t \in Threads, key \in Keys : RegCheck(t, key)
    \/ \E t \in Threads : RegLen(t)
    \/ \E t \in Threads : RegEvict(t)
    \/ \E t \in Threads : RegInsert(t)
    \/ \E t \in Threads : RegReturn(t)
    \/ \E t \in Threads : RegDone(t)

SpecRegistry == InitManager /\ [][NextRegistry]_vars

(***************************************************************************)
(* AISmartConfig.classify_response (ai.py).  A body is a sequence of       *)
(* one-character strings; bytes.lower() maps the ASCII capitals to their   *)
(* small letters and leaves every other byte alone.                        *)
(***************************************************************************)
UpperLetters == <<"A", "B", "C", "D", "E", "F", "G", "H", "I", "J", "K", "L", "M",
                  "N", "O", "P", "Q", "R", "S", "T", "U", "V", "W", "X", "Y", "Z">>
LowerLetters == <<"a", "b", "c", "d", "e", "f", "g", "h", "i", "j", "k", "l", "m",
                  "n", "o", "p", "q", "r", "s", "t", "u", "v", "w", "x", "y", "z">>

LowerChar(c) ==
    IF \E i \in 1..Len(UpperLetters) : UpperLetters[i] = c
    THEN LowerLetters[CHOOSE i \in 1..Len(UpperLetters) : UpperLetters[i] = c]
    ELSE c

\* Mutant of Lower: the body is searched as it came
LowerIdentity(body) == body

\* bytes.lower()
Lower(body) == [i \in 1..Len(body) |-> LowerChar(body[i])]

\* sub in body, for bytes
Contains(sub, body) ==
    \E i \in 0..(Len(body) - Len(sub)) : SubSeq(body, i + 1, i + Len(sub)) = sub

Cloudflare == <<"c", "l", "o", "u", "d", "f", "l", "a", "r", "e">>
Captcha == <<"c", "a", "p", "t", "c", "h", "a">>
Turnstile == <<"t", "u", "r", "n", "s", "t", "i", "l", "e">>

\* AISmartConfig.classify_response(response), of response.status and response.data
ClassifyResponse(st, body) ==
    IF 200 <= st /\ st < 300
    THEN "success"
    ELSE LET b == Lower(body) IN
         IF st \in {403, 429}
         THEN IF Contains(Cloudflare, b) \/ Contains(Captcha, b) \/ Contains(Turnstile, b)
              THEN "challenge"
              ELSE "block"
         ELSE "error"

\* The statuses and bodies the responses are drawn from
Statuses == {100, 199, 200, 204, 299, 300, 302, 400, 401, 403, 404, 429, 500, 503}
Fragments ==
    { <<>>,
      <<"p", "l", "a", "i", "n", " ", "f", "o", "r", "b", "i", "d", "d", "e", "n">>,
      <<"c", "l", "o", "u", "d", "f", "l", "a", "r", "e">>,
      <<"C", "l", "o", "u", "d", "F", "l", "a", "r", "e", " ">>,
      <<"c", "a", "p", "t", "c", "h", "a">>,
      <<"C", "A", "P", "T", "C", "H", "A", "!">>,
      <<"<", "T", "u", "r", "n", "S", "t", "i", "l", "e", ">">>,
      <<"t", "u", "r", "n", "s", "t", "i", "l">>,
      <<"c", "a", "p", "t">>,
      <<"c", "h", "a">> }

RECURSIVE BodiesOf(_)
BodiesOf(n) ==
    IF n = 0 THEN {<<>>} ELSE {b \o f : b \in BodiesOf(n - 1), f \in Fragments}

Bodies == BodiesOf(MaxFrags)

\* classify_response is called on the response
Classify ==
    /\ classification = "unclassified"
    /\ classification' = ClassifyResponse(status, data)
    /\ UNCHANGED <<poolVars, callerVars, mgrVars, aiVars, clientVars, status, data>>

InitClassify ==
    /\ InitPoolsIdle /\ InitMgrIdle /\ InitClientIdle
    /\ status \in Statuses
    /\ data \in Bodies
    /\ classification = "unclassified"

NextClassify == Classify

SpecClassify == InitClassify /\ [][NextClassify]_vars

(***************************************************************************)
(* AISmartConfig's insights and retry advice (ai.py) and                   *)
(* SmartClient.request (smart_client.py).  The destinations looked up have *)
(* distinct netlocs, so an insights entry is named by the destination; an  *)
(* entry _get_insights has not created yet reads as a fresh AIInsights().  *)
(***************************************************************************)
RetryCeiling == 5
HistoryLimit == 50

\* Python floats, as exact fractions in lowest terms: the decimal literals of the
\* source and the products and sums of them are computed without rounding.
RECURSIVE GCD(_, _)
GCD(a, b) == IF b = 0 THEN a ELSE GCD(b, a % b)

Rat(n, d) == LET g == GCD(n, d) IN [num |-> n \div g, den |-> d \div g]

\* x * y
RatMul(x, y) ==
    LET g1 == GCD(x.num, y.den)
        g2 == GCD(y.num, x.den)
    IN  Rat((x.num \div g1) * (y.num \div g2), (x.den \div g2) * (y.den \div g1))

\* x + y
RatAdd(x, y) ==
    LET g == GCD(x.den, y.den)
    IN  Rat(x.num * (y.den \div g) + y.num * (x.den \div g), (x.den \div g) * y.den)

\* x <= y
RatLeq(x, y) == x.num * y.den <= y.num * x.den

\* AIInsights.__init__ (last_status None is 0)
NewInsights ==
    [success_count |-> 0, failure_count |-> 0, last_status |-> 0,
     avg_delay |-> Rat(5, 10), total_requests |-> 0, history |-> <<>>]

\* Mutant of LearnFromResponse: the moving average weighs the old value and the
\* new one equally
LearnFromResponseEvenWeights(i, st, body, elapsed) ==
    LET c == ClassifyResponse(st, body)
        h == Append(i.history, [status |-> st, classification |-> c, elapsed |-> elapsed])
    IN  [i EXCEPT !.total_requests = @ + 1,
                  !.last_status = st,
                  !.success_count = IF c = "success" THEN @ + 1 ELSE @,
                  !.failure_count = IF c = "success" THEN @ ELSE @ + 1,
                  !.avg_delay = IF c = "success"
                                THEN RatAdd(RatMul(@, Rat(5, 10)), RatMul(elapsed, Rat(5, 10)))
                                ELSE RatMul(@, Rat(12, 10)),
                  !.history = IF Len(h) > HistoryLimit THEN Tail(h) ELSE h]

\* Mutant of LearnFromResponse: only a success is counted in total_requests
LearnFromResponseSkipsFailures(i, st, body, elapsed) ==
    LET c == ClassifyResponse(st, body)
        h == Append(i.history, [status |-> st, classification |-> c, elapsed |-> elapsed])
    IN  [i EXCEPT !.total_requests = IF c = "success" THEN @ + 1 ELSE @,
                  !.last_status = st,
                  !.success_count = IF c = "success" THEN @ + 1 ELSE @,
                  !.failure_count = IF c = "success" THEN @ ELSE @ + 1,
                  !.avg_delay = IF c = "success"
                                THEN RatAdd(RatMul(@, Rat(9, 10)), RatMul(elapsed, Rat(1, 10)))
                                ELSE RatMul(@, Rat(12, 10)),
                  !.history = IF Len(h) > HistoryLimit THEN Tail(h) ELSE h]

\* Mutant of LearnFromResponse: a full history drops its newest entry
LearnFromResponseDropsNewest(i, st, body, elapsed) ==
    LET c == ClassifyResponse(st, body)
        h == Append(i.history, [status |-> st, classification |-> c, elapsed |-> elapsed])
    IN  [i EXCEPT !.total_requests = @ + 1,
                  !.last_status = st,
                  !.success_count = IF c = "success" THEN @ + 1 ELSE @,
                  !.failure_count = IF c = "success" THEN @ ELSE @ + 1,
                  !.avg_delay = IF c = "success"
                                THEN RatAdd(RatMul(@, Rat(9, 10)), RatMul(elapsed, Rat(1, 10)))
                                ELSE RatMul(@, Rat(12, 10)),
                  !.history = IF Len(h) > HistoryLimit THEN i.history ELSE h]

\* AISmartConfig.learn_from_response, on one destination's entry
LearnFromResponse(i, st, body, elapsed) ==
    LET c == ClassifyResponse(st, body)
        h == Append(i.history, [status |-> st, classification |-> c, elapsed |-> elapsed])
    IN  [i EXCEPT !.total_requests = @ + 1,
                  !.last_status = st,
                  !.success_count = IF c = "success" THEN @ + 1 ELSE @,
                  !.failure_count = IF c = "success" THEN @ ELSE @ + 1,
                  !.avg_delay = IF c = "success"
                                THEN RatAdd(RatMul(@, Rat(9, 10)), RatMul(elapsed, Rat(1, 10)))
                                ELSE RatMul(@, Rat(12, 10)),
                  !.history = IF Len(h) > HistoryLimit THEN Tail(h) ELSE h]

\* AISmartConfig.get_domain_insights, of one destination's entry; the quotient
\* success_rate is kept as its numerator and denominator
GetDomainInsights(i) ==
    [success_rate |-> [num |-> i.success_count,
                       den |-> IF i.total_requests > 1 THEN i.total_requests ELSE 1],
     avg_delay |-> i.avg_delay,
     total_requests |-> i.total_requests]

\* Mutant of SuggestRetryStrategy: the two delays are swapped
SuggestRetryStrategySwapped(st, body) ==
    LET c == ClassifyResponse(st, body) IN
    IF c = "challenge" THEN [retry |-> TRUE, delay |-> 10, rotate_ua |-> TRUE]
    ELSE IF c = "block" THEN [retry |-> TRUE, delay |-> 5, rotate_ua |-> TRUE]
    ELSE [retry |-> FALSE, delay |-> 0, rotate_ua |-> FALSE]

\* AISmartConfig.suggest_retry_strategy ({"retry": False} has no delay: 0)
SuggestRetryStrategy(st, body) ==
    LET c == ClassifyResponse(st, body) IN
    IF c = "challenge" THEN [retry |-> TRUE, delay |-> 5, rotate_ua |-> TRUE]
    ELSE IF c = "block" THEN [retry |-> TRUE, delay |-> 10, rotate_ua |-> TRUE]
    ELSE [retry |-> FALSE, delay |-> 0, rotate_ua |-> FALSE]

\* Mutant of DictUpdate: the keys h already defines keep their values
DictSetDefault(h, new) == [k \in HeaderNames |-> IF h[k] # Absent THEN h[k] ELSE new[k]]

\* h.update(new), of a copy of h
DictUpdate(h, new) == [k \in HeaderNames |-> IF new[k] # Absent THEN new[k] ELSE h[k]]

\* The headers dict suggest_headers starts from
Baseline ==
    [h \in HeaderNames |->
        IF h = "User-Agent" THEN Val("ai-urllib4/2.1.0 (Smart)")
        ELSE IF h = "Accept" THEN Val("*/*")
        ELSE IF h = "Accept-Language" THEN Val("en-US,en;q=0.5")
        ELSE Absent]

\* What a backend's ask may do: raise, return None or "", or return a text: one
\* without a brace, one with an opening brace only, braces around something that
\* is not JSON, a JSON object of header strings, a JSON object of numbers.
BackendAnswers ==
    {"raises", "none", "empty", "prose", "unclosed", "malformed", "mapping", "numbers"}

AdviceMapping ==
    [h \in HeaderNames |->
        IF h = "User-Agent" THEN Val("Mozilla/5.0")
        ELSE IF h = "Referer" THEN Val("https://example.org/")
        ELSE Absent]

AdviceNumbers ==
    [h \in HeaderNames |-> IF h = "Accept" THEN [text |-> "<int>", n |-> 1] ELSE Absent]

\* backend.ask(prompt): GeminiBackend.ask catches every Exception and returns None
Ask(bk, answer) == IF bk = "gemini" /\ answer = "raises" THEN "none" ELSE answer

\* AISmartConfig.suggest_headers, of the destination's entry: the exception that
\* leaves it, whether the backend was asked, the headers returned
SuggestHeaders(i, bk, answer) ==
    IF bk # "none" /\ i.failure_count > 0
    THEN LET advice == Ask(bk, answer) IN
         IF advice = "raises"
         THEN [exc |-> "BackendError", asked |-> TRUE, headers |-> NoHeaders]
         ELSE IF advice \in {"none", "empty", "prose", "unclosed", "malformed"}
         THEN [exc |-> "none", asked |-> TRUE, headers |-> Baseline]
         ELSE IF advice = "mapping"
         THEN [exc |-> "none", asked |-> TRUE, headers |-> DictUpdate(Baseline, AdviceMapping)]
         ELSE [exc |-> "none", asked |-> TRUE, headers |-> DictUpdate(Baseline, AdviceNumbers)]
    ELSE [exc |-> "none", asked |-> FALSE, headers |-> Baseline]

\* Mutant of Retries: every response with status >= 400 is tried again
RetriesAnyFailure(optimize, st, body, att) ==
    optimize /\ st >= 400 /\ att < RetryCeiling

\* SmartClient.request, lines 101-104: whether the loop goes round again
Retries(optimize, st, body, att) ==
    /\ optimize /\ st >= 400
    /\ SuggestRetryStrategy(st, body).retry /\ att < RetryCeiling

\* The responses the transport gives the client
ClientResponses ==
    { [status |-> 200, data |-> <<"o", "k">>],
      [status |-> 403, data |-> <<"p", "l", "a", "i", "n">>],
      [status |-> 429, data |-> <<"C", "a", "p", "t", "c", "h", "a">>],
      [status |-> 500, data |-> <<"c", "a", "p", "t", "c", "h", "a">>] }

\* The observations learn_from_response is given: a response and the elapsed time
Observations ==
    { [status |-> 200, data |-> <<"o", "k">>, elapsed |-> Rat(15, 10)],
      [status |-> 403, data |-> <<"p", "l", "a", "i", "n">>, elapsed |-> Rat(15, 10)],
      [status |-> 429, data |-> <<"C", "a", "p", "t", "c", "h", "a">>, elapsed |-> Rat(5, 10)],
      [status |-> 500, data |-> <<"c", "a", "p", "t", "c", "h", "a">>, elapsed |-> Rat(25, 10)] }

\* A caller of AISmartConfig, one call at a time, records an observation of a
\* destination
Learn(key, obs) ==
    /\ call = NoCall
    /\ nobs < MaxObs
    /\ nobs' = nobs + 1
    /\ insights' = [insights EXCEPT ![key] =
                        LearnFromResponse(@, obs.status, obs.data, obs.elapsed)]
    /\ call' = [op |-> "learn_from_response", key |-> key, arg |-> obs, val |-> "None"]
    /\ UNCHANGED <<poolVars, callerVars, mgrVars, clsVars, clientVars, backend>>

\* ... asks for a destination's insights
Report(key) ==
    /\ call = NoCall
    /\ call' = [op |-> "get_domain_insights", key |-> key, arg |-> "none",
               val |-> GetDomainInsights(insights[key])]
    /\ UNCHANGED <<poolVars, callerVars, mgrVars, clsVars, clientVars, insights, backend, nobs>>

\* ... asks what to do about a response
Advise(key, obs) ==
    /\ call = NoCall
    /\ call' = [op |-> "suggest_retry_strategy", key |-> key, arg |-> obs,
               val |-> SuggestRetryStrategy(obs.status, obs.data)]
    /\ UNCHANGED <<poolVars, callerVars, mgrVars, clsVars, clientVars, insights, backend, nobs>>

\* ... asks for the headers to send to a destination; answer is what the backend
\* does if it is asked
Suggest(key, answer) ==
    /\ call = NoCall
    /\ call' = [op |-> "suggest_headers", key |-> key, arg |-> answer,
                val |-> SuggestHeaders(insights[key], backend, answer)]
    /\ UNCHANGED <<poolVars, callerVars, mgrVars, clsVars, clientVars, insights, backend, nobs>>

\* The caller takes what the call returned or raised
Return ==
    /\ call # NoCall
    /\ call' = NoCall
    /\ UNCHANGED <<poolVars, callerVars, mgrVars, clsVars, clientVars, insights, backend, nobs>>

InitLearn ==
    /\ InitPoolsIdle /\ InitMgrIdle /\ InitClsIdle /\ InitRequestIdle
    /\ client = [ai_optimize |-> FALSE, learn_from_success |-> FALSE, headers |-> NoHeaders]
    /\ insights = [k \in Keys |-> NewInsights]
    /\ backend \in {"none", "gemini", "custom"}
    /\ nobs = 0
    /\ call = NoCall

NextLearn ==
    \/ \E key \in Keys, obs \in Observations : Learn(key, obs)
    \/ \E key \in Keys : Report(key)
    \/ \E key \in Keys, obs \in Observations : Advise(key, obs)
    \/ \E key \in Keys, answer \in BackendAnswers : Suggest(key, answer)
    \/ Return

SpecLearn == InitLearn /\ [][NextLearn]_vars

(***************************************************************************)
(* Threads calling AISmartConfig.learn_from_response on one object, a      *)
(* thread switch being possible between the read and the write of each     *)
(* += on a counter (the class takes no lock).                              *)
(***************************************************************************)
\* lines 106-108: i = self._get_insights(domain); i.total_requests is read
LearnLoadTotal(t, key, obs) ==
    /\ lpc[t] = "idle"
    /\ nobs + Cardinality({u \in Threads : lpc[u] # "idle"}) < MaxObs
    /\ lobs' = [lobs EXCEPT ![t] = [key |-> key, status |-> obs.status, data |-> obs.data,
                                    elapsed |-> obs.elapsed]]
    /\ lreg' = [lreg EXCEPT ![t] = insights[key].total_requests]
    /\ lpc' = [lpc EXCEPT ![t] = "total"]
    /\ UNCHANGED <<poolVars, mgrVars, clsVars, aiVars, clientVars, mpc, mkey, mret>>

\* lines 108-111: i.total_requests is written; i.last_status; classify_response
LearnStoreTotal(t) ==
    /\ lpc[t] = "total"
    /\ insights' = [insights EXCEPT ![lobs[t].key] =
            [@ EXCEPT !.total_requests = lreg[t] + 1, !.last_status = lobs[t].status]]
    /\ lpc' = [lpc EXCEPT ![t] = "classified"]
    /\ UNCHANGED <<poolVars, mgrVars, clsVars, clientVars, backend, nobs, call,
                   mpc, mkey, mret, lobs, lreg>>

\* lines 112-117: i.success_count or i.failure_count is read
LearnLoadCount(t) ==
    /\ lpc[t] = "classified"
    /\ lreg' = [lreg EXCEPT ![t] =
            IF ClassifyResponse(lobs[t].status, lobs[t].data) = "success"
            THEN insights[lobs[t].key].success_count
            ELSE insights[lobs[t].key].failure_count]
    /\ lpc' = [lpc EXCEPT ![t] = "count"]
    /\ UNCHANGED <<poolVars, mgrVars, clsVars, aiVars, clientVars, mpc, mkey, mret, lobs>>

\* lines 113-124: the counter is written, then avg_delay, then the history entry
\* is appended and a 51st entry popped; the call returns
LearnStoreCount(t) ==
    /\ lpc[t] = "count"
    /\ LET o == lobs[t]
           c == ClassifyResponse(o.status, o.data)
           i == insights[o.key]
           h == Append(i.history, [status |-> o.status, classification |-> c,
                                   elapsed |-> o.elapsed])
       IN insights' = [insights EXCEPT ![o.key] =
            [i EXCEPT !.success_count = IF c = "success" THEN lreg[t] + 1 ELSE @,
                      !.failure_count = IF c = "success" THEN @ ELSE lreg[t] + 1,
                      !.avg_delay = IF c = "success"
                                    THEN RatAdd(RatMul(@, Rat(9, 10)),
                                                RatMul(o.elapsed, Rat(1, 10)))
                                    ELSE RatMul(@, Rat(12, 10)),
                      !.history = IF Len(h) > HistoryLimit THEN Tail(h) ELSE h]]
    /\ nobs' = nobs + 1
    /\ lpc' = [lpc EXCEPT ![t] = "idle"]
    /\ lobs' = [lobs EXCEPT ![t] = NoObservation]
    /\ UNCHANGED <<poolVars, mgrVars, clsVars, clientVars, backend, call,
                   mpc, mkey, mret, lreg>>

NextLearnThreads ==
    \/ \E t \in Threads, key \in Keys, obs \in Observations : LearnLoadTotal(t, key, obs)
    \/ \E t \in Threads : LearnStoreTotal(t)
    \/ \E t \in Threads : LearnLoadCount(t)
    \/ \E t \in Threads : LearnStoreCount(t)

SpecLearnThreads == InitLearn /\ [][NextLearnThreads]_vars

(***************************************************************************)
(* A long run of observations of one destination: up to MaxLead 403s, then *)
(* successes.  The n-th observation, if a success, has status 200 + n, and *)
(* its elapsed time is the destination's avg_delay at that moment.         *)
(***************************************************************************)
ObserveFailure ==
    /\ nobs < MaxStream
    /\ insights[1].success_count = 0 /\ insights[1].failure_count < MaxLead
    /\ LET obs == [status |-> 403, data |-> <<"p", "l", "a", "i", "n">>,
                   elapsed |-> Rat(15, 10)] IN
        /\ insights' = [insights EXCEPT ![1] =
                            LearnFromResponse(@, obs.status, obs.data, obs.elapsed)]
        /\ call' = [op |-> "learn_from_response", key |-> 1, arg |-> obs, val |-> "None"]
    /\ nobs' = nobs + 1
    /\ UNCHANGED <<poolVars, callerVars, mgrVars, clsVars, clientVars, backend>>

ObserveSuccess ==
    /\ nobs < MaxStream
    /\ LET obs == [status |-> 200 + nobs + 1, data |-> <<"o", "k">>,
                   elapsed |-> insights[1].avg_delay] IN
        /\ insights' = [insights EXCEPT ![1] =
                            LearnFromResponse(@, obs.status, obs.data, obs.elapsed)]
        /\ call' = [op |-> "learn_from_response", key |-> 1, arg |-> obs, val |-> "None"]
    /\ nobs' = nobs + 1
    /\ UNCHANGED <<poolVars, callerVars, mgrVars, clsVars, clientVars, backend>>

NextHistory == ObserveFailure \/ ObserveSuccess

SpecHistory == InitLearn /\ [][NextHistory]_vars

(***************************************************************************)
(* SmartClient.request (smart_client.py).  A dispatch takes one second of  *)
(* the clock and time.sleep(delay) takes delay seconds.                    *)
(***************************************************************************)
CallerHeaders ==
    [h \in HeaderNames |->
        IF h = "User-Agent" THEN Val("caller/1.0")
        ELSE IF h = "X-Token" THEN Val("caller")
        ELSE Absent]

\* PoolManager's self.headers, when the client was constructed with headers
ManagerHeaders ==
    [h \in HeaderNames |->
        IF h = "Accept" THEN Val("application/json")
        ELSE IF h = "X-Token" THEN Val("manager")
        ELSE Absent]

\* What callers put in kw
ClientKws ==
    { [release_conn |-> FALSE, headers |-> NoHeaders, timeout |-> Unset, maxRetries |-> Unset],
      [release_conn |-> TRUE, headers |-> CallerHeaders, timeout |-> 5, maxRetries |-> 1] }

\* The destinations the client's callers ask for: with num_pools = 1 each change
\* of destination evicts, with num_pools = 2 none does
ClientKeys == {1, 2}

\* What the client's backend answers when suggest_headers asks it
ClientAnswers == {"none", "mapping"}

\* SmartClient.request up to the loop: the suggested headers updated with the
\* caller's, the default timeout, attempt = 0; an exception of suggest_headers
\* leaves the call
ClientRequest(key, kw, answer) ==
    /\ rpc = "idle"
    /\ nreq < MaxRequests
    /\ TotalMade(objs) < MaxMgrConns
    /\ Cached(pools, key) \/ Len(objs) < MaxMade
    /\ nreq' = nreq + 1
    /\ attempt' = 0
    /\ dispatches' = 0
    /\ allBlock' = TRUE
    /\ clock' = 0
    /\ sent' = NothingSent
    /\ IF client.ai_optimize
       THEN LET sh == SuggestHeaders(insights[key], backend, answer) IN
            /\ rq' = [key |-> key, release_conn |-> kw.release_conn, headers |-> kw.headers,
                      timeout |-> kw.timeout, maxRetries |-> kw.maxRetries,
                      ai_headers |-> sh.headers]
            /\ headers' = IF sh.exc = "none" THEN DictUpdate(sh.headers, kw.headers)
                          ELSE kw.headers
            /\ timeout' = IF sh.exc = "none" /\ kw.timeout = Unset THEN 30 ELSE kw.timeout
            /\ rpc' = IF sh.exc = "none" THEN "loop" ELSE "raised"
            /\ err' = sh.exc
       ELSE /\ rq' = [key |-> key, release_conn |-> kw.release_conn, headers |-> kw.headers,
                      timeout |-> kw.timeout, maxRetries |-> kw.maxRetries,
                      ai_headers |-> NoHeaders]
            /\ headers' = kw.headers
            /\ timeout' = kw.timeout
            /\ rpc' = "loop"
            /\ err' = "none"
    /\ UNCHANGED <<poolVars, callerVars, mgrVars, clsVars, aiVars, client>>

\* Mutant of Elapsed: the time is measured from the start of the attempt
ElapsedSinceAttempt(clk) == 1

\* elapsed = time.time() - start_time, start_time being set once before the loop:
\* the seconds since the start of the request when a dispatch, which takes one
\* second, is answered
Elapsed(clk) == clk + 1

\* One round of the loop whose dispatch is answered: PoolManager.request (its
\* headers merge, the lookup and the pool's urlopen), learn_from_response, the
\* retry decision, and either the sleep and the User-Agent rotation or the return.
ClientDispatch(res) ==
    /\ rpc = "loop"
    /\ client.learn_from_success => nobs < MaxLearn
    /\ LET r == ConnectionFromUrl(mgr, pools, objs, rq.key)
           g == PoolGetConn(r.objs[r.id])
           strategy == SuggestRetryStrategy(res.status, res.data)
           again == Retries(client.ai_optimize, res.status, res.data, attempt)
           elapsed == Elapsed(clock)
       IN
        /\ g.exc = "none"
        /\ pools' = r.pools
        /\ ret' = [key |-> rq.key, id |-> r.id]
        /\ objs' = [r.objs EXCEPT ![r.id] = PoolFinally(g.p, g.conn, rq.release_conn)]
        /\ sent' = [headers |-> DictUpdate(client.headers, headers), timeout |-> timeout]
        /\ status' = res.status
        /\ data' = res.data
        /\ classification' =
                IF client.learn_from_success \/ (client.ai_optimize /\ res.status >= 400)
                THEN ClassifyResponse(res.status, res.data)
                ELSE "unclassified"
        /\ dispatches' = dispatches + 1
        /\ allBlock' = (allBlock /\ ClassifyResponse(res.status, res.data) = "block")
        /\ IF client.learn_from_success
           THEN /\ insights' = [insights EXCEPT ![rq.key] =
                        LearnFromResponse(@, res.status, res.data, Rat(elapsed, 1))]
                /\ nobs' = nobs + 1
           ELSE UNCHANGED <<insights, nobs>>
        /\ attempt' = IF again THEN attempt + 1 ELSE attempt
        /\ clock' = IF again THEN elapsed + strategy.delay ELSE elapsed
        /\ headers' = IF again /\ strategy.rotate_ua
                      THEN [headers EXCEPT !["User-Agent"] =
                                [text |-> "ai-urllib4/2.1.0 (Retry-n)", n |-> attempt + 1]]
                      ELSE headers
        /\ rpc' = IF again THEN "loop" ELSE "returned"
    /\ UNCHANGED <<poolVars, callerVars, mgr, client, rq, nreq, timeout, err, backend, call>>

\* One round of the loop whose dispatch raises: _get_conn raises, or the transport
\* fails inside urlopen's try and its finally block runs; request has no handler
\* and the exception leaves it.
ClientDispatchRaises ==
    /\ rpc = "loop"
    /\ LET r == ConnectionFromUrl(mgr, pools, objs, rq.key)
           g == PoolGetConn(r.objs[r.id]) IN
        /\ pools' = r.pools
        /\ ret' = [key |-> rq.key, id |-> r.id]
        /\ objs' = IF g.exc # "none"
                   THEN r.objs
                   ELSE [r.objs EXCEPT ![r.id] = PoolFinally(g.p, g.conn, rq.release_conn)]
        /\ err' = IF g.exc # "none" THEN g.exc ELSE "TransportError"
    /\ sent' = [headers |-> DictUpdate(client.headers, headers), timeout |-> timeout]
    /\ dispatches' = dispatches + 1
    /\ clock' = clock + 1
    /\ rpc' = "raised"
    /\ UNCHANGED <<poolVars, callerVars, clsVars, aiVars, mgr, client, rq, attempt, headers, timeout,
                   nreq, allBlock>>

\* The caller takes the response or the exception; the call's locals are gone
ClientDone ==
    /\ rpc \in {"returned", "raised"}
    /\ rpc' = "idle"
    /\ rq' = NoRequest
    /\ attempt' = 0
    /\ headers' = NoHeaders
    /\ timeout' = Unset
    /\ clock' = 0
    /\ sent' = NothingSent
    /\ err' = "none"
    /\ dispatches' = 0
    /\ allBlock' = TRUE
    /\ status' = 0
    /\ data' = <<>>
    /\ classification' = "none"
    /\ UNCHANGED <<poolVars, callerVars, mgrVars, aiVars, client, nreq>>

InitClient ==
    /\ InitPoolsIdle /\ InitClsIdle /\ InitRequestIdle /\ InitCallersIdle
    /\ mgr \in [num_pools : {1, 2}, maxsize : {1}, block : {FALSE}]
    /\ pools = <<>>
    /\ objs = <<>>
    /\ ret = [key |-> 0, id |-> 0]
    /\ client \in [ai_optimize : BOOLEAN, learn_from_success : BOOLEAN,
                   headers : {ManagerHeaders}]
    /\ insights = [k \in Keys |-> NewInsights]
    /\ backend \in {"none", "gemini"}
    \* suggest_headers reads the backend only after a learned failure
    /\ backend = "gemini" => (client.ai_optimize /\ client.learn_from_success)
    /\ nobs = 0
    /\ call = NoCall

NextClient ==
    \/ \E key \in ClientKeys, kw \in ClientKws, answer \in ClientAnswers :
            ClientRequest(key, kw, answer)
    \/ \E res \in ClientResponses : ClientDispatch(res)
    \/ ClientDispatchRaises
    \/ ClientDone

SpecClient == InitClient /\ [][NextClient]_vars

(***************************************************************************)
(* Sequential use of one HTTPConnectionPool: one caller, one call at a     *)
(* time (urlopen runs to its end before the next urlopen or close).        *)
(***************************************************************************)
SeqUrlopenBegin == \E rc \in BOOLEAN : UrlopenBegin(1, rc)
SeqUrlopenEnd == \E ok \in BOOLEAN : UrlopenEnd(1, ok)
SeqUrlopenReturn == UrlopenReturn(1)
SeqClose == tpc[1] = "idle" /\ Close

InitSeq == kind = "sync" /\ InitSync /\ InitAsyncIdle /\ InitMgrIdle /\ InitClsIdle /\ InitClientIdle
NextSeq == SeqUrlopenBegin \/ SeqUrlopenEnd \/ SeqUrlopenReturn \/ SeqClose
SpecSeq == InitSeq /\ [][NextSeq]_vars

(***************************************************************************)
(* Threads calling urlopen on one non-blocking HTTPConnectionPool, a       *)
(* thread switch being possible between any two reads or writes of the     *)
(* pool's attributes (the class takes no lock).                            *)
(***************************************************************************)
InitThreads ==
    /\ kind = "sync"
    /\ hp \in {NewPool(n, FALSE) : n \in 1..MaxSize}
    /\ tpc = [t \in Threads |-> "idle"]
    /\ trel = [t \in Threads |-> FALSE]
    /\ tconn = [t \in Threads |-> 0]
    /\ tout = [t \in Threads |-> "none"]
    /\ treg = [t \in Threads |-> 0]
    /\ InitAsyncIdle /\ InitMgrIdle /\ InitClsIdle /\ InitClientIdle

NextThreads ==
    \/ \E t \in Threads, rc \in BOOLEAN : GetConnCheck(t, rc)
    \/ \E t \in Threads : GetConnLoad(t)
    \/ \E t \in Threads : GetConnStore(t)
    \/ \E t \in Threads, ok \in BOOLEAN : FinallyLoad(t, ok)
    \/ \E t \in Threads : FinallyStore(t)
    \/ \E t \in Threads : UrlopenReturn(t)

SpecThreads == InitThreads /\ [][NextThreads]_vars

(***************************************************************************)
(* Concurrent use of one pool: threads on an HTTPConnectionPool, or        *)
(* coroutines of one event loop on an AsyncHTTPConnectionPool.             *)
(***************************************************************************)
Init ==
    /\ kind \in {"sync", "async"}
    /\ IF kind = "sync" THEN InitSync /\ InitAsyncIdle ELSE InitSyncIdle /\ InitAsync
    /\ InitMgrIdle /\ InitClsIdle /\ InitClientIdle

Next ==
    \/ \E t \in Threads, rc \in BOOLEAN : UrlopenBegin(t, rc)
    \/ \E t \in Threads, ok \in BOOLEAN : UrlopenEnd(t, ok)
    \/ \E t \in Threads : UrlopenReturn(t)
    \/ Close
    \/ \E t \in Tasks : Spawn(t)
    \/ RunStart
    \/ RunWoken
    \/ \E t \in Tasks : IoComplete(t)
    \/ \E ok \in BOOLEAN : RunConnect(ok)
    \/ \E ok \in BOOLEAN : RunTransfer(ok)
    \/ \E ok \in BOOLEAN : RunClosing(ok)
    \/ AsyncClose

Spec == Init /\ [][Next]_vars

(***************************************************************************)
(* Coroutines of one event loop on an AsyncHTTPConnectionPool, with the    *)
(* loop's scheduling: a loop with a non-empty run queue runs the task at   *)
(* its head, and an await on the transport is answered sooner or later.    *)
(* Callers are free to arrive or not, and to close the pool or not.        *)
(***************************************************************************)
InitAsyncFair ==
    /\ kind = "async"
    /\ InitSyncIdle /\ InitAsync
    /\ InitMgrIdle /\ InitClsIdle /\ InitClientIdle

\* The event loop runs the task at the head of its run queue
LoopStep ==
    \/ RunStart
    \/ RunWoken
    \/ \E ok \in BOOLEAN : RunConnect(ok)
    \/ \E ok \in BOOLEAN : RunTransfer(ok)
    \/ \E ok \in BOOLEAN : RunClosing(ok)

NextAsyncFair ==
    \/ \E t \in Tasks : Spawn(t)
    \/ LoopStep
    \/ \E t \in Tasks : IoComplete(t)
    \/ AsyncClose

SpecAsyncFair ==
    /\ InitAsyncFair
    /\ [][NextAsyncFair]_vars
    /\ WF_vars(LoopStep)
    /\ \A t \in Tasks : WF_vars(IoComplete(t))

(***************************************************************************)
(* Properties of the pools.                                                *)
(***************************************************************************)

\* A thread's step that calls HTTPConnectionPool._get_conn (urlopen's first line)
CallsGetConn(t) == tpc[t] = "idle" /\ tpc'[t] # "idle"
\* A task's step that calls AsyncHTTPConnectionPool._get_conn
CallsAsyncGetConn(t) == cpc[t] = "start" /\ cpc'[t] # "start"

\* C1: for every sequence of urlopen and close calls on one HTTPConnectionPool
\* with maxsize = N, num_connections never exceeds N.
C1_NumConnectionsWithinMaxsize == hp.num_connections <= hp.maxsize

\* C2: in every interleaving of coroutines on one AsyncHTTPConnectionPool,
\* num_connections never exceeds maxsize, and a handle a caller got from _get_conn
\* is held by no other caller and is not in the idle queue.
C2_AsyncCapacityAndExclusiveHandles ==
    kind = "async" =>
        /\ ap.num_connections <= ap.maxsize
        /\ \A t \in Tasks : chold[t] # 0 =>
            /\ \A u \in Tasks \ {t} : chold[u] # chold[t]
            /\ chold[t] \notin Range(queue)
        /\ \A i, j \in 1..Len(queue) : queue[i] = queue[j] => i = j
        /\ \A t \in Tasks : cpc[t] # "putting"

\* C2 witness: the pool is at capacity, two callers hold handles and a third
\* is suspended in _get_conn.
C2_Witness ==
    /\ kind = "async"
    /\ ap.num_connections = ap.maxsize
    /\ \E t, u, w \in Tasks :
        /\ t # u /\ chold[t] # 0 /\ chold[u] # 0
        /\ cpc[w] = "waiting"

\* C3: once close() was called on a pool (sync or async), closed stays true, and
\* every _get_conn call started afterwards raises ClosedPoolError, creates no
\* handle and leaves num_connections (and the rest of the pool) as they were.
C3_ClosedIsFinal ==
    [][/\ hp.closed => hp'.closed
       /\ ap.closed => ap'.closed
       /\ \A t \in Threads : (hp.closed /\ CallsGetConn(t)) =>
            /\ tout'[t] = "ClosedPoolError" /\ tpc'[t] = "done" /\ tconn'[t] = 0
            /\ hp' = hp
       /\ \A t \in Tasks : (ap.closed /\ CallsAsyncGetConn(t)) =>
            /\ cout'[t] = "ClosedPoolError" /\ cpc'[t] = "done" /\ chold'[t] = 0
            /\ ap' = ap /\ queue' = queue /\ getters' = getters]_vars

\* C3 witness: an async pool that had created handles was closed and a later
\* urlopen call ended in ClosedPoolError.
C3_Witness ==
    /\ kind = "async" /\ ap.closed /\ ap.num_connections > 0
    /\ \E t \in Tasks : cpc[t] = "done" /\ cout[t] = "ClosedPoolError"

\* C4: on an open pool with block=False, num_connections = maxsize and no idle
\* connection, _get_conn raises EmptyPoolError at once (the caller is not
\* suspended) and changes neither num_connections nor the idle set.
C4_FailFastWhenExhausted ==
    [][/\ \A t \in Threads :
            (/\ CallsGetConn(t)
             /\ ~hp.closed /\ ~hp.block
             /\ hp.num_connections = hp.maxsize /\ hp.pool = <<>>) =>
                /\ tout'[t] = "EmptyPoolError" /\ tpc'[t] = "done" /\ tconn'[t] = 0
                /\ hp' = hp
       /\ \A t \in Tasks :
            (/\ CallsAsyncGetConn(t)
             /\ ~ap.closed /\ ~ap.block
             /\ ap.num_connections = ap.maxsize /\ queue = <<>>) =>
                /\ cout'[t] = "EmptyPoolError" /\ cpc'[t] = "done" /\ chold'[t] = 0
                /\ ap' = ap /\ queue' = queue /\ getters' = getters]_vars

\* C4 witness: a thread's urlopen on an open, exhausted, non-blocking sync pool
\* ended in EmptyPoolError while another thread holds the only connection.
C4_Witness ==
    /\ kind = "sync" /\ ~hp.closed /\ ~hp.block
    /\ hp.num_connections = hp.maxsize /\ hp.pool = <<>>
    /\ \E t, u \in Threads : tout[t] = "EmptyPoolError" /\ tconn[u] # 0

\* C5: on a blocking AsyncHTTPConnectionPool at capacity, suspended callers get
\* handles in the order they began waiting, and no caller that invoked _get_conn
\* later gets a handle while an earlier caller is still waiting.
C5_WaitersServedInOrder ==
    [][\A t \in Tasks :
        (kind = "async" /\ chold[t] = 0 /\ chold'[t] # 0 /\ waitq # <<>>)
            => t = Head(waitq)]_vars

\* C6: on an open HTTPConnectionPool with block=True, num_connections = maxsize
\* and an empty idle list, _get_conn does not return a connection (no connection
\* has been released in the step that calls it).
C6_BlockingGetConnWaits ==
    [][\A t \in Threads :
        (/\ CallsGetConn(t)
         /\ ~hp.closed /\ hp.block
         /\ hp.num_connections = hp.maxsize /\ hp.pool = <<>>)
            => (tpc'[t] # "request" /\ tconn'[t] = 0)]_vars

(***************************************************************************)
(* Properties of the request loop.                                         *)
(***************************************************************************)

\* C7: with ai_optimize on and every response classified block, one request call
\* makes exactly 5 dispatches in all, the first one counted, and then returns: a
\* call that has returned made 5, and a call still in its loop made fewer than 5.
C7_FiveDispatchesWhenAlwaysBlocked ==
    /\ (rpc = "returned" /\ client.ai_optimize /\ allBlock) => dispatches = 5
    /\ (rpc = "loop" /\ client.ai_optimize /\ allBlock) => dispatches < 5

(***************************************************************************)
(* Properties of the advisor: retry advice and destination insights.       *)
(***************************************************************************)

\* C11: suggest_retry_strategy answers by the response's classification alone,
\* whatever the insights store holds: challenge gives retry, delay 5 and rotation;
\* block gives retry, delay 10 and rotation; success and error give no retry.
C11_RetryAdviceByClassification ==
    call.op = "suggest_retry_strategy" =>
        LET c == ClassifyResponse(call.arg.status, call.arg.data) IN
        /\ c = "challenge" =>
                call.val.retry /\ call.val.delay = 5 /\ call.val.rotate_ua
        /\ c = "block" =>
                call.val.retry /\ call.val.delay = 10 /\ call.val.rotate_ua
        /\ c \in {"success", "error"} => ~call.val.retry

\* C11 witness: for a destination with no recorded request, a 429 whose body
\* holds captcha got retry, delay 5, rotation.
C11_Witness ==
    /\ call.op = "suggest_retry_strategy"
    /\ insights[call.key].total_requests = 0
    /\ call.arg.status = 429 /\ Contains(Captcha, Lower(call.arg.data))
    /\ call.val = [retry |-> TRUE, delay |-> 5, rotate_ua |-> TRUE]

\* C12: every learn_from_response call raises the destination's total_requests by
\* 1, raises success_count by 1 if the classification is success and failure_count
\* by 1 otherwise, and sets last_status; so success_count + failure_count =
\* total_requests always, and the success_rate get_domain_insights reports is
\* success_count / max(1, total_requests), within [0, 1].
C12_CountersTrackObservations ==
    [][/\ nobs' # nobs =>
            LET k == call'.key
                i == insights[k]
                j == insights'[k]
                ok == ClassifyResponse(call'.arg.status, call'.arg.data) = "success"
            IN  /\ j.total_requests = i.total_requests + 1
                /\ j.last_status = call'.arg.status
                /\ j.success_count = i.success_count + (IF ok THEN 1 ELSE 0)
                /\ j.failure_count = i.failure_count + (IF ok THEN 0 ELSE 1)
                /\ \A o \in Keys \ {k} : insights'[o] = insights[o]
       /\ \A k \in Keys :
            insights'[k].success_count + insights'[k].failure_count
                = insights'[k].total_requests
       /\ call'.op = "get_domain_insights" =>
            LET r == call'.val.success_rate
                i == insights'[call'.key]
            IN  /\ r.num = i.success_count
                /\ r.den = (IF i.total_requests >= 1 THEN i.total_requests ELSE 1)
                /\ 0 <= r.num /\ r.num <= r.den]_vars

\* C12 witness: after one success and one failure the destination's reported
\* success_rate is 1/2.
C12_Witness ==
    /\ call.op = "get_domain_insights"
    /\ insights[call.key].success_count = 1 /\ insights[call.key].failure_count = 1
    /\ call.val.success_rate = [num |-> 1, den |-> 2]
    /\ call.val.total_requests = 2

\* C13: after n observations of a destination its history holds the last
\* min(n, 50) of them in the order they were made (the o-th observation of the run
\* is a 403 if o is at most the number of failures, else the success 200 + o).
C13_HistoryKeepsLastFifty ==
    LET i == insights[1]
        n == i.total_requests
        len == IF n < 50 THEN n ELSE 50
    IN  /\ n = nobs
        /\ Len(i.history) = len
        /\ \A j \in 1..len :
            LET o == n - len + j IN
            /\ i.history[j].status = (IF o <= i.failure_count THEN 403 ELSE 200 + o)
            /\ i.history[j].classification =
                    (IF o <= i.failure_count THEN "block" ELSE "success")

\* C13 witness: 52 observations, the first two of them 403s, have been made; the
\* history holds 50 entries and its oldest is the third observation.
C13_Witness ==
    /\ insights[1].total_requests = 52 /\ insights[1].failure_count = 2
    /\ Len(insights[1].history) = 50
    /\ insights[1].history[1].status = 203
    /\ insights[1].history[50].status = 252

C19_BackendFailuresSwallowed ==
    call.op = "suggest_headers" =>
        /\ call.val.exc = "none"
        /\ call.arg \in {"raises", "none", "empty", "prose", "unclosed", "malformed"}
                => call.val.headers = Baseline
        /\ call.val.asked => insights[call.key].failure_count > 0

\* C15: a transport failure during a dispatch made by SmartClient.request is not
\* raised to the caller (it is turned into an error outcome the loop goes on with).
C15_TransportFailureRecovered ==
    ~(rpc = "raised" /\ err = "TransportError")

\* C16: the loop goes round again only after a response the advisor marks for
\* retry; a response classified success or error ends the call, which returns
\* that response, the one of its last dispatch, whatever its status; the call
\* raises only when suggest_headers or the dispatch itself raised, never because
\* of a response's status.
C16_StopsAtFirstNonRetryResponse ==
    [][/\ (rpc = "loop" /\ dispatches' = dispatches + 1 /\ rpc' # "raised") =>
            LET c == ClassifyResponse(status', data') IN
            /\ c \in {"success", "error"} => rpc' = "returned"
            /\ rpc' = "loop" => (client.ai_optimize /\ c \in {"challenge", "block"})
       /\ (rpc' = "returned" /\ rpc # "returned") =>
            /\ rpc = "loop" /\ dispatches' = dispatches + 1
            /\ err' = "none"
            /\ \E res \in ClientResponses : status' = res.status /\ data' = res.data
       /\ (rpc' = "raised" /\ rpc # "raised") =>
            /\ err' \in {"BackendError", "TransportError", "EmptyPoolError", "ClosedPoolError"}
            /\ status' = status /\ data' = data]_vars

\* C16 witness: after two responses that were tried again, a 500 ended the call
\* and was returned.
C16_Witness ==
    /\ rpc = "returned" /\ err = "none"
    /\ client.ai_optimize /\ dispatches = 3 /\ attempt = 2
    /\ status = 500

\* C17: with ai_optimize on, the first dispatch carries the caller's value for
\* every header the caller supplied and the suggested value (baseline or advice)
\* for every other header suggest_headers returned; its timeout is 30 if the
\* caller supplied none and the caller's otherwise.
C17_FirstDispatchHeadersAndTimeout ==
    (client.ai_optimize /\ dispatches = 1) =>
        /\ \A k \in HeaderNames :
            /\ rq.headers[k] # Absent => sent.headers[k] = rq.headers[k]
            /\ (rq.headers[k] = Absent /\ rq.ai_headers[k] # Absent)
                    => sent.headers[k] = rq.ai_headers[k]
            /\ rq.ai_headers[k] \in {Baseline[k], AdviceMapping[k]}
            /\ Baseline[k] # Absent => rq.ai_headers[k] # Absent
        /\ sent.timeout = (IF rq.timeout = Unset THEN 30 ELSE rq.timeout)

\* C17 witness: the backend's advice was taken for a destination with a learned
\* failure, and the first dispatch for a caller who supplied a User-Agent and a
\* timeout carried the caller's User-Agent, the advised Referer, the baseline
\* Accept and the caller's timeout.
C17_Witness ==
    /\ client.ai_optimize /\ dispatches = 1
    /\ rq.headers = CallerHeaders
    /\ rq.ai_headers["User-Agent"] = Val("Mozilla/5.0")
    /\ sent.headers["User-Agent"] = Val("caller/1.0")
    /\ sent.headers["Referer"] = Val("https://example.org/")
    /\ sent.headers["Accept"] = Val("*/*")
    /\ sent.timeout = 5

\* C20: a request called with maxRetries = m makes no more dispatches than m
\* retries allow (the first one and m more), and one called without it no more
\* than 5 retries allow.
C20_MaxRetriesIsCeiling ==
    dispatches <= (IF rq.maxRetries = Unset THEN 5 ELSE rq.maxRetries) + 1

\* C18: when several threads call urlopen concurrently on one HTTPConnectionPool
\* with block = False and maxsize = N, num_connections never exceeds N, in any
\* interleaving of their steps.
C18_ThreadsKeepCountWithinMaxsize ==
    (kind = "sync" /\ ~hp.block) => hp.num_connections <= hp.maxsize

\* C21: an HTTPConnectionPool.urlopen call that obtained a connection disposes of
\* it exactly once before it returns or raises: the connection it holds is neither
\* idle nor closed; with release_conn it goes to _put_conn (to the idle list, or
\* closed if the pool is closed) and the count stays; otherwise it is closed and
\* num_connections, raised by one when the call obtained it, goes down by one, so
\* the call leaves the count as it found it, on the normal and the exceptional exit.
C21_UrlopenDisposesOnce ==
    [][/\ tpc[1] = "request" =>
            tconn[1] # 0 /\ tconn[1] \notin (Range(hp.pool) \cup hp.shut)
       /\ (tpc[1] = "idle" /\ tpc'[1] = "request") =>
            hp'.num_connections = hp.num_connections + 1
       /\ (tpc[1] = "request" /\ tpc'[1] # "request") =>
            LET c == tconn[1]
                idle == Cardinality({i \in 1..Len(hp'.pool) : hp'.pool[i] = c}) IN
            /\ tpc'[1] = "done" /\ tconn'[1] = 0
            /\ tout'[1] \in {"response", "raised"}
            /\ IF trel[1]
               THEN /\ hp'.num_connections = hp.num_connections
                    /\ IF hp.closed THEN c \in hp'.shut /\ idle = 0
                                    ELSE c \notin hp'.shut /\ idle = 1
               ELSE /\ hp'.num_connections = hp.num_connections - 1
                    /\ c \in hp'.shut /\ idle = 0]_vars

\* C21 witness: two calls without release_conn have ended, the second by an
\* exception; both connections are closed and the count is back at 0.
C21_Witness ==
    /\ kind = "sync" /\ tpc[1] = "done" /\ tout[1] = "raised" /\ ~trel[1]
    /\ hp.made = 2 /\ hp.shut = {1, 2} /\ hp.num_connections = 0

\* C23: when an HTTPConnectionPool is open and its idle list is not empty,
\* _get_conn returns one of the idle connections, removes it from the idle list,
\* constructs no connection and leaves num_connections unchanged.
C23_GetConnReusesIdle ==
    [][(CallsGetConn(1) /\ ~hp.closed /\ hp.pool # <<>>) =>
            /\ tconn'[1] \in Range(hp.pool)
            /\ tconn'[1] \notin Range(hp'.pool)
            /\ hp'.made = hp.made
            /\ hp'.num_connections = hp.num_connections]_vars

\* C24: once close() was called on an HTTPConnectionPool its idle list is empty
\* in every later state: close closes every idle connection and empties the list,
\* a connection released with _put_conn after close is closed and not added to
\* the list, and a second close changes nothing.
C24_ClosedPoolHasNoIdle ==
    [][/\ hp.closed => (hp.pool = <<>> /\ hp'.pool = <<>>)
       /\ (~hp.closed /\ hp'.closed) =>
            (hp'.pool = <<>> /\ Range(hp.pool) \subseteq hp'.shut)
       /\ \A t \in Threads :
            (hp.closed /\ tpc[t] = "request" /\ tpc'[t] = "done" /\ trel[t]) =>
                (tconn[t] \in hp'.shut /\ tconn[t] \notin Range(hp'.pool))
       /\ (hp.closed /\ tpc' = tpc) => hp' = hp]_vars

\* C24 witness: the pool is closed, two connections were released with
\* release_conn (one call still holds the result of the later one) and both are
\* closed, none idle.
C24_Witness ==
    /\ kind = "sync" /\ hp.closed /\ hp.pool = <<>>
    /\ hp.made = 2 /\ hp.shut = {1, 2} /\ hp.num_connections = 2
    /\ \E t \in Threads : tpc[t] = "done" /\ trel[t] /\ tout[t] = "response"

\* C22: an AsyncHTTPConnectionPool.urlopen call that obtained a handle, on a pool
\* that stays open, has put the handle back on the idle queue when it finishes,
\* whichever way it finishes (return, transport failure while connecting, writing
\* or reading, failure while closing the writer).
C22_AsyncHandleAlwaysReturned ==
    [][\A t \in Tasks :
        (/\ chold[t] # 0
         /\ cpc[t] \in {"connect", "transfer", "closing"}
         /\ cpc'[t] = "done"
         /\ ~ap'.closed) => chold[t] \in Range(queue')]_vars

\* C25: if close() is called on an AsyncHTTPConnectionPool while a caller is
\* suspended in _get_conn (block = True), that caller eventually fails with
\* ClosedPoolError.
C25_SuspendedCallerFailsAfterClose ==
    \A t \in Tasks :
        (cpc[t] = "waiting" /\ ap.closed) ~> (cout[t] = "ClosedPoolError")

\* A handle the pool counts is neither on the queue nor held by a call
HandleLost ==
    ap.num_connections > Len(queue) + Cardinality({t \in Tasks : chold[t] # 0})

\* C26: on an open AsyncHTTPConnectionPool with block = True, while every handle
\* taken is released again, every caller suspended in _get_conn eventually
\* obtains a handle, also when other callers keep arriving.
C26_WaitersEventuallyServed ==
    \A t \in Tasks :
        (cpc[t] = "waiting" /\ ~ap.closed) ~>
            (cpc[t] = "connect" \/ ap.closed \/ HandleLost)

\* A step of SmartClient.request in which a dispatch is answered by a response
CompletesDispatch ==
    rpc = "loop" /\ dispatches' = dispatches + 1 /\ rpc' # "raised"

\* C27: with learning enabled every dispatch SmartClient.request completes brings
\* exactly one insights update, for the request's destination and of the response
\* just received, in the round of the loop that takes the retry decision, so that
\* k dispatches raise that destination's total_requests by k and nothing else
\* changes any entry; with learning disabled no entry ever changes.
C27_OneUpdatePerDispatch ==
    [][/\ CompletesDispatch =>
            IF client.learn_from_success
            THEN /\ insights'[rq.key].total_requests = insights[rq.key].total_requests + 1
                 /\ insights'[rq.key].last_status = status'
                 /\ Len(insights'[rq.key].history) = Len(insights[rq.key].history) + 1
                 /\ \A k \in Keys : k # rq.key => insights'[k] = insights[k]
            ELSE insights' = insights
       /\ ~CompletesDispatch => insights' = insights]_vars

\* C27 witness: a learning client's request has returned after 3 dispatches and
\* its destination's total_requests is 3.
C27_Witness ==
    /\ client.learn_from_success /\ rpc = "returned" /\ nreq = 1
    /\ dispatches = 3
    /\ insights[rq.key].total_requests = 3
    /\ insights[rq.key].last_status = status

\* C28: between two consecutive dispatches of one request the call waits the
\* advisor's delay (5 after a challenge, 10 after a block), and the k-th retry
\* carries the User-Agent rotation marker of k; every other header, the
\* destination and the timeout are those of the dispatch before.
C28_RetryKeepsRequestButUserAgent ==
    [][/\ (rpc = "loop" /\ rpc' = "loop" /\ dispatches' = dispatches + 1) =>
            clock' = clock + 1 +
                (IF ClassifyResponse(status', data') = "challenge" THEN 5 ELSE 10)
       /\ (rpc = "loop" /\ dispatches >= 1 /\ dispatches' = dispatches + 1) =>
            /\ sent'.headers["User-Agent"] =
                    [text |-> "ai-urllib4/2.1.0 (Retry-n)", n |-> dispatches]
            /\ \A h \in HeaderNames \ {"User-Agent"} : sent'.headers[h] = sent.headers[h]
            /\ sent'.timeout = sent.timeout
            /\ ret'.key = ret.key /\ ret'.key = rq.key]_vars

\* C28 witness: the second retry of a request whose caller supplied headers and a
\* timeout was dispatched, after a challenge and a block (1 + 5 + 1 + 10 seconds).
C28_Witness ==
    /\ dispatches = 3 /\ attempt = 2 /\ rpc = "returned"
    /\ sent.headers["User-Agent"] = [text |-> "ai-urllib4/2.1.0 (Retry-n)", n |-> 2]
    /\ sent.headers["X-Token"] = Val("caller")
    /\ sent.timeout = 5
    /\ clock = 18

\* C29: when several threads call PoolManager.connection_from_url concurrently,
\* in every interleaving the registry never holds more than num_pools entries, and
\* two lookups of the same destination return the same pool when it was not
\* evicted in between (no eviction has happened while the manager has constructed
\* at most num_pools pools).
C29_RegistrySafeUnderThreads ==
    /\ Len(pools) <= mgr.num_pools
    /\ \A t, u \in Threads :
        (/\ mpc[t] = "done" /\ mpc[u] = "done"
         /\ mkey[t] = mkey[u]
         /\ Len(objs) <= mgr.num_pools)
            => (mret[t].exc = "none" /\ mret[t] = mret[u])

\* C30: when several threads complete attempts for the same destination
\* concurrently no insights update is lost: once all of them have finished,
\* total_requests equals the number of completed attempts (each of which has
\* appended its history entry) and success_count + failure_count = total_requests.
C30_NoLostInsightsUpdate ==
    (\A t \in Threads : lpc[t] = "idle") =>
        \A k \in Keys :
            /\ insights[k].total_requests = Len(insights[k].history)
            /\ insights[k].success_count + insights[k].failure_count
                    = insights[k].total_requests

\* Every cached pool that was never given a connection back has no connection
\* counted and none idle, and every connection it constructed is closed
UnreleasedPoolsAreEmpty ==
    \A i \in 1..Len(pools) :
        LET p == objs[pools[i].id] IN
        p.pool = <<>> => (p.num_connections = 0 /\ p.shut = 1..p.made)

C32_ElapsedMeasuredFromRequestStart ==
    [][(CompletesDispatch /\ client.learn_from_success /\ dispatches >= 1) =>
            LET h == insights[rq.key].history
                hn == insights'[rq.key].history
                earlier == h[Len(h)].elapsed
                later == hn[Len(hn)].elapsed
                delay == IF ClassifyResponse(status, data) = "challenge" THEN 5 ELSE 10
            IN  /\ Len(hn) = Len(h) + 1
                /\ h[Len(h)].status = status
                /\ RatLeq(RatAdd(earlier, Rat(delay, 1)), later)
                /\ RatLeq(earlier, later)]_vars

\* C32 witness: a learning client's request returned after a challenge, a block
\* and a final response, recorded at 1, 7 and 18 seconds.
C32_Witness ==
    /\ client.learn_from_success /\ rpc = "returned" /\ dispatches = 3
    /\ LET h == insights[rq.key].history IN
        /\ Len(h) = 3
        /\ h[1].elapsed = Rat(1, 1) /\ h[2].elapsed = Rat(7, 1) /\ h[3].elapsed = Rat(18, 1)

(***************************************************************************)
(* Properties of the pool registry.                                        *)
(***************************************************************************)

\* The registry without its i-th entry
Without(reg, i) == SubSeq(reg, 1, i - 1) \o SubSeq(reg, i + 1, Len(reg))

C9_EvictedPoolIsClosed ==
    [][\A i \in 1..Len(pools) :
        (\A j \in 1..Len(pools') : pools'[j].id # pools[i].id) =>
            LET id == pools[i].id IN
            /\ objs'[id].closed
            /\ objs'[id].pool = <<>>
            /\ Range(objs[id].pool) \subseteq objs'[id].shut]_vars

(***************************************************************************)
(* Properties of the classifier.                                           *)
(***************************************************************************)

\* The capital of a small letter (other characters have none)
UpperOf(c) ==
    IF \E i \in 1..Len(LowerLetters) : LowerLetters[i] = c
    THEN UpperLetters[CHOOSE i \in 1..Len(LowerLetters) : LowerLetters[i] = c]
    ELSE c

\* marker occurs in body at offset i, each letter in either case
OccursAnyCase(marker, body, i) ==
    /\ i + Len(marker) <= Len(body)
    /\ \A j \in 1..Len(marker) : body[i + j] \in {marker[j], UpperOf(marker[j])}

HasMarkerAnyCase(body) ==
    \E marker \in {Cloudflare, Captcha, Turnstile} :
        \E i \in 0..Len(body) : OccursAnyCase(marker, body, i)

\* C10: classify_response is a total function of (status, body): 200..299 gives
\* success whatever the body; 403 or 429 with a body holding cloudflare, captcha or
\* turnstile in any letter case gives challenge; 403 or 429 otherwise gives block;
\* every other status gives error.
C10_ClassifierTable ==
    classification \notin {"none", "unclassified"} =>
        classification =
            IF status \in 200..299 THEN "success"
            ELSE IF status \in {403, 429} /\ HasMarkerAnyCase(data) THEN "challenge"
            ELSE IF status \in {403, 429} THEN "block"
            ELSE "error"

\* C10 witness: a 429 whose body holds a marker in capitals only was classified
\* challenge.
C10_Witness ==
    /\ status = 429 /\ classification = "challenge"
    /\ HasMarkerAnyCase(data)
    /\ ~Contains(Cloudflare, data) /\ ~Contains(Captcha, data) /\ ~Contains(Turnstile, data)

=============================================================================
